---- MODULE Spec2Model ----
(***************************************************************************)
(* Model of the browser-side session holder (AuthProvider / authReducer)   *)
(* and of the student attendance view (StudentAttendanceView).             *)
(*                                                                         *)
(* JavaScript values are modelled as follows: an object is a record whose  *)
(* absent properties are absent fields; null and undefined are the records *)
(* Null and Undefined; a string is Str(cs) with cs its sequence of         *)
(* characters; an array is a sequence.  An awaited call is split into the  *)
(* step that issues it and the step that runs when it settles; everything  *)
(* between two awaits is one atomic step, as in the single-threaded event  *)
(* loop.                                                                   *)
(***************************************************************************)
EXTENDS Integers, Sequences, FiniteSets, TLC

VARIABLES
    state,                \* the useReducer state of AuthProvider
    tokenStore,           \* the token store read by getAccessToken/getUserData
    clearTokensCalls,     \* number of calls of clearTokens
    pcInit,               \* position of initializeAuth: start, validating, done
    initLocals,           \* token and userData as read by initializeAuth
    getCurrentUserCalls,  \* number of calls of authAPI.getCurrentUser
    inflight,             \* per action function: the collaborator call it awaits
    returned,             \* the call that ran to its end in the latest step, if any
    touched,              \* history: an action function has dispatched since start
    loggedOut,            \* history: logout has completed and no login or register
                          \* has succeeded since
    viewer,               \* the user prop of StudentAttendanceView
    classes,              \* useState: the classes the viewer may mark
    selectedClass,        \* useState: the class shown, Null before any is selected
    attendanceDate,       \* useState: the date shown
    students,             \* useState: the roster loaded last
    attendance,           \* useState: student id -> attendance record
    loading,              \* useState: the loading flag
    saving,               \* useState: the saving flag
    pcClasses,            \* position of loadAccessibleClasses: start, awaiting, done
    requests,             \* roster and attendance GET calls that have not settled
    writes,               \* POST /api/attendance/mark calls that have not settled
    run,                  \* the markAllPresent loop in progress, with its history
    finished,             \* the attendance flow that ran to its end in the latest step
    props,                \* the props StatsCards was rendered with
    clicked               \* the latest click on a card and the call it forwarded, if any

authVars == <<state, tokenStore, clearTokensCalls, pcInit, initLocals,
              getCurrentUserCalls, inflight, returned, touched, loggedOut>>

viewVars == <<viewer, classes, selectedClass, attendanceDate, students, attendance,
              loading, saving, pcClasses, requests, writes, run, finished>>

cardVars == <<props, clicked>>

vars == <<authVars, viewVars, cardVars>>

----------------------------------------------------------------------------
(* JavaScript values *)

Null == [null |-> TRUE]
Undefined == [undefined |-> TRUE]
Str(cs) == [str |-> cs]
EmptyObject == [k \in {} |-> TRUE]

Has(obj, f) == f \in DOMAIN obj

\* truthiness of a value that is null, undefined, a string or an object
Truthy(v) == v # Null /\ v # Undefined /\ v # Str(<<>>)

\* String.prototype.includes
Includes(cs, sub) ==
    \E i \in 1..(Len(cs) - Len(sub) + 1) : SubSeq(cs, i, i + Len(sub) - 1) = sub

\* object spread {...a, ...b}; spreading null or undefined adds nothing
Spread(v) == IF v = Null \/ v = Undefined THEN EmptyObject ELSE v
Merge(a, b) ==
    [k \in DOMAIN Spread(a) \cup DOMAIN Spread(b) |->
        IF k \in DOMAIN Spread(b) THEN Spread(b)[k] ELSE Spread(a)[k]]

----------------------------------------------------------------------------
(* String literals of the source *)

InvalidSessionText == <<"I","n","v","a","l","i","d"," ","s","e","s","s","i","o","n">>
LoginFailedText == <<"L","o","g","i","n"," ","f","a","i","l","e","d">>
RegistrationFailedText == <<"R","e","g","i","s","t","r","a","t","i","o","n"," ","f","a","i","l","e","d">>
ProfileUpdateFailedText == <<"P","r","o","f","i","l","e"," ","u","p","d","a","t","e"," ","f","a","i","l","e","d">>
PasswordChangeFailedText == <<"P","a","s","s","w","o","r","d"," ","c","h","a","n","g","e"," ","f","a","i","l","e","d">>
PasswordResetRequestFailedText == <<"P","a","s","s","w","o","r","d"," ","r","e","s","e","t"," ","r","e","q","u","e","s","t"," ","f","a","i","l","e","d">>
PasswordResetFailedText == <<"P","a","s","s","w","o","r","d"," ","r","e","s","e","t"," ","f","a","i","l","e","d">>
GetSessionsFailedText == <<"F","a","i","l","e","d"," ","t","o"," ","g","e","t"," ","s","e","s","s","i","o","n","s">>
RevokeSessionFailedText == <<"F","a","i","l","e","d"," ","t","o"," ","r","e","v","o","k","e"," ","s","e","s","s","i","o","n">>
Needle401 == <<"4","0","1">>

\* message of the TypeError raised by reading a property of undefined
TypeErrorText == <<"C","a","n","n","o","t"," ","r","e","a","d"," ","p","r","o","p","e","r","t","i","e","s"," ","o","f"," ","u","n","d","e","f","i","n","e","d">>
TypeErrorObject == [message |-> Str(TypeErrorText)]

----------------------------------------------------------------------------
(* The reducer *)

initialState ==
    [isAuthenticated |-> FALSE, isLoading |-> TRUE, user |-> Null,
     error |-> Null, permissions |-> <<>>]

authReducer(s, action) ==
    CASE action.type = "SET_LOADING" ->
            [s EXCEPT !.isLoading = action.payload]
      [] action.type = "LOGIN_SUCCESS" ->
            [s EXCEPT !.isAuthenticated = TRUE,
                      !.isLoading = FALSE,
                      !.user = action.payload.user,
                      !.permissions = IF Has(action.payload, "permissions")
                                      THEN action.payload.permissions ELSE <<>>,
                      !.error = Null]
      [] action.type = "LOGIN_FAILURE" ->
            [s EXCEPT !.isAuthenticated = FALSE,
                      !.isLoading = FALSE,
                      !.user = Null,
                      !.permissions = <<>>,
                      !.error = action.payload]
      [] action.type = "LOGOUT" ->
            [initialState EXCEPT !.isLoading = FALSE]
      [] action.type = "SET_USER" ->
            [s EXCEPT !.user = action.payload.user,
                      !.permissions = IF Has(action.payload, "permissions")
                                      THEN action.payload.permissions ELSE s.permissions,
                      !.isAuthenticated = TRUE,
                      !.isLoading = FALSE]
      [] action.type = "SET_ERROR" ->
            [s EXCEPT !.error = action.payload, !.isLoading = FALSE]
      [] action.type = "CLEAR_ERROR" ->
            [s EXCEPT !.error = Null]
      [] action.type = "UPDATE_PROFILE" ->
            [s EXCEPT !.user = Merge(s.user, action.payload)]
      [] OTHER -> s

\* the state after dispatching a sequence of actions in order
RECURSIVE dispatch(_, _)
dispatch(s, actions) ==
    IF actions = <<>> THEN s
    ELSE dispatch(authReducer(s, Head(actions)), Tail(actions))

----------------------------------------------------------------------------
(* Bounds and the values the collaborators are driven with *)

\* number of action functions that may be awaiting their collaborator at once
MaxPending == 2

Perm(n) == [name |-> n]
PermNames == {"attendance", "reports", "fees"}

AdminUser == [id |-> 1, role |-> "InstituteAdmin", permissions |-> <<>>]
TeacherUser == [id |-> 2, role |-> "Teacher", permissions |-> <<Perm("attendance")>>]
TeacherFresh ==
    [id |-> 2, role |-> "Teacher", permissions |-> <<Perm("attendance"), Perm("reports")>>]
StudentUser == [id |-> 3, role |-> "Student"]

\* what the token store may hold when the provider mounts
CachedTokens == {Null, Str(<<"t","1">>)}
CachedUsers == {Null, AdminUser, TeacherUser, StudentUser}

\* user records the server may return
ServerUsers == {TeacherFresh, StudentUser}

NetworkErrorText == <<"N","e","t","w","o","r","k"," ","E","r","r","o","r">>
UnauthorizedText == <<"R","e","q","u","e","s","t"," ","f","a","i","l","e","d"," ","4","0","1">>
TimeoutText == <<"t","i","m","e","o","u","t"," ","o","f"," ","4","0","1","0","m","s">>
RejectedText == <<"R","e","j","e","c","t","e","d">>

Resolve(response) == [kind |-> "resolve", response |-> response]
Reject(error) == [kind |-> "reject", error |-> error]

\* rejections of a collaborator call: an error with an optional status and message
PlainRejections ==
    { Reject([message |-> Str(NetworkErrorText)]),
      Reject([status |-> 500]) }

\* how authAPI.getCurrentUser may settle
GetCurrentUserReplies ==
    { Resolve([success |-> TRUE, data |-> [user |-> u]]) : u \in ServerUsers }
    \cup { Resolve([success |-> TRUE, data |-> TeacherFresh]),
           Resolve([success |-> TRUE]),
           Resolve([success |-> FALSE, message |-> Str(RejectedText)]),
           Reject([status |-> 401, message |-> Str(UnauthorizedText)]),
           Reject([status |-> 401]),
           Reject([message |-> Str(TimeoutText)]),
           Reject([status |-> 500, message |-> Str(TimeoutText)]) }
    \cup PlainRejections

\* how authAPI.login and authAPI.register may settle
SessionReplies ==
    { Resolve([success |-> TRUE, data |-> [user |-> u]]) : u \in ServerUsers }
    \cup { Resolve([success |-> TRUE, data |-> [token |-> Str(<<"t","2">>)]]),
           Resolve([success |-> FALSE, message |-> Str(RejectedText)]),
           Resolve([success |-> FALSE]) }
    \cup PlainRejections

\* how authAPI.logout and authAPI.logoutAll may settle
LogoutReplies == { Resolve([success |-> TRUE]) } \cup PlainRejections

\* how authAPI.updateProfile may settle
ProfileReplies ==
    { Resolve([success |-> TRUE, data |-> [name |-> Str(<<"N">>)]]),
      Resolve([success |-> TRUE]),
      Resolve([success |-> FALSE, message |-> Str(RejectedText)]) }
    \cup PlainRejections

\* how the remaining collaborator methods may settle
PlainReplies ==
    { Resolve([success |-> TRUE, data |-> [ok |-> TRUE]]),
      Resolve([success |-> FALSE, message |-> Str(RejectedText)]),
      Resolve(Undefined) }
    \cup PlainRejections

----------------------------------------------------------------------------
(* Outcome of running a block of code: it throws, or it completes having   *)
(* dispatched some actions and produced a value                            *)

\* no call ran to its end in the step
NoCall == [op |-> "none"]

Throw(e) == [threw |-> TRUE, error |-> e, actions |-> <<>>, value |-> Undefined]
Return(acts, v) == [threw |-> FALSE, error |-> Undefined, actions |-> acts, value |-> v]

\* try { body } catch (error) { handler(error) }
TryCatch(body, handler(_)) == IF body.threw THEN handler(body.error) ELSE body

\* response.success read as a condition; reading it off undefined throws
SuccessOf(response) == Has(response, "success") /\ response.success
DataOf(response) == IF Has(response, "data") THEN response.data ELSE Undefined
\* x.message || fallback
MessageOr(x, fallback) ==
    IF Has(x, "message") /\ Truthy(x.message) THEN x.message ELSE Str(fallback)
\* u.permissions || []
PermissionsOr(u) == IF Has(u, "permissions") THEN u.permissions ELSE <<>>

LoginSuccessAction(u) ==
    [type |-> "LOGIN_SUCCESS", payload |-> [user |-> u, permissions |-> PermissionsOr(u)]]

----------------------------------------------------------------------------
(* initializeAuth *)

\* the store's clearTokens: the cached token and user record are removed
clearTokens(store) == [accessToken |-> Null, userData |-> Null]

\* a variant that takes response.data as the user without unwrapping data.user
verifyTry_NoUnwrap(reply) ==
    IF reply.kind = "reject" THEN Throw(reply.error)
    ELSE LET response == reply.response IN
         IF response = Undefined THEN Throw(TypeErrorObject)
         ELSE IF SuccessOf(response)
         THEN IF ~Has(response, "data") THEN Throw(TypeErrorObject)
              ELSE Return(<<LoginSuccessAction(response.data)>>, Undefined)
         ELSE Throw([message |-> Str(InvalidSessionText)])

\* the inner try block: the settled getCurrentUser call and what follows it
verifyTry(reply) ==
    IF reply.kind = "reject" THEN Throw(reply.error)
    ELSE LET response == reply.response IN
         IF response = Undefined THEN Throw(TypeErrorObject)
         ELSE IF SuccessOf(response)
         THEN IF ~Has(response, "data") THEN Throw(TypeErrorObject)
              ELSE LET freshUserData ==
                           IF Has(response.data, "user") /\ Truthy(response.data.user)
                           THEN response.data.user ELSE response.data
                   IN Return(<<LoginSuccessAction(freshUserData)>>, Undefined)
         ELSE Throw([message |-> Str(InvalidSessionText)])

\* a variant that looks for 401 in the message only
IsInvalidToken_MessageOnly(verifyError) ==
    Has(verifyError, "message") /\ Includes(verifyError.message.str, Needle401)

\* verifyError.status === 401 || verifyError.message?.includes('401')
IsInvalidToken(verifyError) ==
    \/ Has(verifyError, "status") /\ verifyError.status = 401
    \/ Has(verifyError, "message") /\ Includes(verifyError.message.str, Needle401)

\* a variant that tests the token only
HasCachedSession_TokenOnly(token, userData) == Truthy(token)

\* if (token && userData)
HasCachedSession(token, userData) == Truthy(token) /\ Truthy(userData)

\* first segment: up to the await of getCurrentUser, or to the end when
\* nothing is cached or reading the store throws
InitializeAuthStart ==
    /\ pcInit = "start"
    /\ \E readThrows \in BOOLEAN :
        LET begun == authReducer(state, [type |-> "SET_LOADING", payload |-> TRUE])
            token == tokenStore.accessToken
            userData == tokenStore.userData
        IN IF readThrows
           THEN /\ state' = authReducer(begun, [type |-> "SET_LOADING", payload |-> FALSE])
                /\ initLocals' = [threw |-> TRUE, token |-> Null, userData |-> Null]
                /\ pcInit' = "done"
                /\ UNCHANGED getCurrentUserCalls
           ELSE /\ initLocals' = [threw |-> FALSE, token |-> token, userData |-> userData]
                /\ IF HasCachedSession(token, userData)
                   THEN /\ state' = authReducer(begun, LoginSuccessAction(userData))
                        /\ getCurrentUserCalls' = getCurrentUserCalls + 1
                        /\ pcInit' = "validating"
                   ELSE /\ state' = authReducer(begun,
                                        [type |-> "SET_LOADING", payload |-> FALSE])
                        /\ pcInit' = "done"
                        /\ UNCHANGED getCurrentUserCalls
    /\ returned' = NoCall
    /\ UNCHANGED <<tokenStore, clearTokensCalls, inflight, touched, loggedOut>>
    /\ UNCHANGED <<viewVars, cardVars>>

\* second segment: the getCurrentUser call settles
InitializeAuthSettle ==
    /\ pcInit = "validating"
    /\ \E reply \in GetCurrentUserReplies :
        LET body == verifyTry(reply) IN
        /\ returned' = [op |-> "initializeAuth", call |-> [method |-> "getCurrentUser"],
                        reply |-> reply, threw |-> FALSE, value |-> Undefined]
        /\ IF ~body.threw
           THEN /\ state' = dispatch(state, body.actions)
                /\ UNCHANGED <<tokenStore, clearTokensCalls>>
           ELSE IF IsInvalidToken(body.error)
           THEN /\ tokenStore' = clearTokens(tokenStore)
                /\ clearTokensCalls' = clearTokensCalls + 1
                /\ state' = authReducer(state, [type |-> "LOGOUT"])
           ELSE UNCHANGED <<state, tokenStore, clearTokensCalls>>
    /\ pcInit' = "done"
    /\ UNCHANGED <<initLocals, getCurrentUserCalls, inflight, touched, loggedOut>>
    /\ UNCHANGED <<viewVars, cardVars>>

----------------------------------------------------------------------------
(* The action functions.  Each operator below is the part of the function  *)
(* that runs once its collaborator call has settled with `reply`.          *)

Ops == {"login", "register", "logout", "updateProfile", "changePassword",
        "forgotPassword", "resetPassword", "getSessions", "revokeSession"}
PlainOps == {"changePassword", "forgotPassword", "resetPassword",
             "getSessions", "revokeSession"}

Idle == [method |-> "idle"]
Pending == {op \in Ops : inflight[op] # Idle}

Success(data) == [success |-> TRUE, data |-> data]
Failure(message) == [success |-> FALSE, error |-> message]

\* await of the collaborator call: the value it resolved to, or its rejection thrown
Await(reply, then(_)) ==
    IF reply.kind = "reject" THEN Throw(reply.error)
    ELSE IF reply.response = Undefined THEN Throw(TypeErrorObject)
    ELSE then(reply.response)

loginThen(response) ==
    IF SuccessOf(response)
    THEN IF ~Has(response, "data") \/ ~Has(response.data, "user")
         THEN Throw(TypeErrorObject)
         ELSE Return(<<LoginSuccessAction(response.data.user)>>, Success(response.data))
    ELSE Throw([message |-> MessageOr(response, LoginFailedText)])

loginCatch(error) ==
    LET errorMessage == MessageOr(error, LoginFailedText)
    IN Return(<<[type |-> "LOGIN_FAILURE", payload |-> errorMessage]>>,
              Failure(errorMessage))

login(reply) == TryCatch(Await(reply, loginThen), loginCatch)

registerThen(response) ==
    IF SuccessOf(response)
    THEN IF ~Has(response, "data") \/ ~Has(response.data, "user")
         THEN Throw(TypeErrorObject)
         ELSE Return(<<LoginSuccessAction(response.data.user)>>, Success(response.data))
    ELSE Throw([message |-> MessageOr(response, RegistrationFailedText)])

\* a variant whose failure path returns the result without dispatching
registerCatch_NoDispatch(error) ==
    LET errorMessage == MessageOr(error, RegistrationFailedText)
    IN Return(<<>>, Failure(errorMessage))

registerCatch(error) ==
    LET errorMessage == MessageOr(error, RegistrationFailedText)
    IN Return(<<[type |-> "SET_ERROR", payload |-> errorMessage]>>,
              Failure(errorMessage))

register(reply) == TryCatch(Await(reply, registerThen), registerCatch)

\* a variant that dispatches LOGOUT after the await instead of in finally
logout_NoFinally(reply) ==
    IF reply.kind = "reject" THEN Return(<<>>, Undefined)
    ELSE Return(<<[type |-> "LOGOUT"]>>, Undefined)

\* try { await } catch { log } finally { dispatch LOGOUT }; nothing is returned
logout(reply) == Return(<<[type |-> "LOGOUT"]>>, Undefined)

\* the collaborator method logout(logoutAll) awaits
logoutMethod(logoutAll) == IF logoutAll THEN "logoutAll" ELSE "logout"

updateProfileThen(response) ==
    IF SuccessOf(response)
    THEN Return(<<[type |-> "UPDATE_PROFILE", payload |-> DataOf(response)]>>,
                Success(DataOf(response)))
    ELSE Throw([message |-> MessageOr(response, ProfileUpdateFailedText)])

updateProfileCatch(error) == Return(<<>>, Failure(MessageOr(error, ProfileUpdateFailedText)))

updateProfile(reply) == TryCatch(Await(reply, updateProfileThen), updateProfileCatch)

\* return { success: true, data: response.data }
plainThen(response) == Return(<<>>, Success(DataOf(response)))

\* a variant that hands back the error object instead of its message
changePasswordCatch_RawError(error) == Return(<<>>, Failure(error))

changePasswordCatch(error) == Return(<<>>, Failure(MessageOr(error, PasswordChangeFailedText)))
changePassword(reply) == TryCatch(Await(reply, plainThen), changePasswordCatch)

forgotPasswordCatch(error) ==
    Return(<<>>, Failure(MessageOr(error, PasswordResetRequestFailedText)))
forgotPassword(reply) == TryCatch(Await(reply, plainThen), forgotPasswordCatch)

resetPasswordCatch(error) == Return(<<>>, Failure(MessageOr(error, PasswordResetFailedText)))
resetPassword(reply) == TryCatch(Await(reply, plainThen), resetPasswordCatch)

getSessionsCatch(error) == Return(<<>>, Failure(MessageOr(error, GetSessionsFailedText)))
getSessions(reply) == TryCatch(Await(reply, plainThen), getSessionsCatch)

revokeSessionCatch(error) == Return(<<>>, Failure(MessageOr(error, RevokeSessionFailedText)))
revokeSession(reply) == TryCatch(Await(reply, plainThen), revokeSessionCatch)

\* the settled part of the action function op
Run(op, reply) ==
    CASE op = "login" -> login(reply)
      [] op = "register" -> register(reply)
      [] op = "logout" -> logout(reply)
      [] op = "updateProfile" -> updateProfile(reply)
      [] op = "changePassword" -> changePassword(reply)
      [] op = "forgotPassword" -> forgotPassword(reply)
      [] op = "resetPassword" -> resetPassword(reply)
      [] op = "getSessions" -> getSessions(reply)
      [] op = "revokeSession" -> revokeSession(reply)

Replies(op) ==
    CASE op \in {"login", "register"} -> SessionReplies
      [] op = "logout" -> LogoutReplies
      [] op = "updateProfile" -> ProfileReplies
      [] OTHER -> PlainReplies

\* an action function may be called once the mount effect has run; the model
\* keeps at most one call of each function in flight
CanCall(op) ==
    /\ pcInit # "start"
    /\ inflight[op] = Idle

\* login and register up to their await: SET_LOADING true, CLEAR_ERROR, the call
SessionCall(op) ==
    /\ op \in {"login", "register"}
    /\ CanCall(op)
    /\ state' = dispatch(state, <<[type |-> "SET_LOADING", payload |-> TRUE],
                                  [type |-> "CLEAR_ERROR"]>>)
    /\ inflight' = [inflight EXCEPT ![op] = [method |-> op]]
    /\ touched' = TRUE
    /\ UNCHANGED loggedOut
    /\ returned' = NoCall
    /\ UNCHANGED <<tokenStore, clearTokensCalls, pcInit, initLocals, getCurrentUserCalls>>
    /\ UNCHANGED <<viewVars, cardVars>>

LoginCall == SessionCall("login")
RegisterCall == SessionCall("register")

\* logout(logoutAll) up to its await
LogoutCall ==
    /\ CanCall("logout")
    /\ \E logoutAll \in BOOLEAN :
          inflight' = [inflight EXCEPT !["logout"] =
                          [method |-> logoutMethod(logoutAll), logoutAll |-> logoutAll]]
    /\ returned' = NoCall
    /\ UNCHANGED <<state, tokenStore, clearTokensCalls, pcInit, initLocals,
                   getCurrentUserCalls, touched, loggedOut>>
    /\ UNCHANGED <<viewVars, cardVars>>

\* the other action functions up to their await: only the call
Call(op) ==
        /\ CanCall(op)
        /\ inflight' = [inflight EXCEPT ![op] = [method |-> op]]
        /\ returned' = NoCall
        /\ UNCHANGED <<state, tokenStore, clearTokensCalls, pcInit, initLocals,
                       getCurrentUserCalls, touched, loggedOut>>
        /\ UNCHANGED <<viewVars, cardVars>>

\* the collaborator call of op settles and op runs to its end
Settle(op) ==
    /\ inflight[op] # Idle
    /\ \E reply \in Replies(op) :
        LET outcome == Run(op, reply) IN
        /\ state' = dispatch(state, outcome.actions)
        /\ returned' = [op |-> op, call |-> inflight[op], reply |-> reply,
                        threw |-> outcome.threw, value |-> outcome.value]
        /\ touched' = (touched \/ outcome.actions # <<>>)
        /\ loggedOut' = IF op = "logout" THEN TRUE
                        ELSE IF op \in {"login", "register"} /\ outcome.value.success
                        THEN FALSE
                        ELSE loggedOut
    /\ inflight' = [inflight EXCEPT ![op] = Idle]
    /\ UNCHANGED <<tokenStore, clearTokensCalls, pcInit, initLocals, getCurrentUserCalls>>
    /\ UNCHANGED <<viewVars, cardVars>>

UpdateProfileCall == Call("updateProfile")
PlainCall == \E op \in PlainOps : Call(op)

LoginSettle == Settle("login")
RegisterSettle == Settle("register")
LogoutSettle == Settle("logout")
UpdateProfileSettle == Settle("updateProfile")
PlainSettle == \E op \in PlainOps : Settle(op)

clearError ==
    /\ pcInit # "start"
    /\ state.error # Null
    /\ state' = authReducer(state, [type |-> "CLEAR_ERROR"])
    /\ returned' = NoCall
    /\ UNCHANGED <<tokenStore, clearTokensCalls, pcInit, initLocals,
                   getCurrentUserCalls, inflight, touched, loggedOut>>
    /\ UNCHANGED <<viewVars, cardVars>>

----------------------------------------------------------------------------
(* The derived predicates of the context value *)

RoleOf(user) == IF Has(user, "role") THEN user.role ELSE "undefined"

\* a variant without the InstituteAdmin bypass
hasPermission_NoBypass(permission) ==
    IF ~Truthy(state.user) THEN FALSE
    ELSE \E i \in DOMAIN state.permissions :
            Has(state.permissions[i], "name") /\ state.permissions[i].name = permission

hasPermission(permission) ==
    IF ~Truthy(state.user) THEN FALSE
    ELSE IF RoleOf(state.user) = "InstituteAdmin" THEN TRUE
    ELSE \E i \in DOMAIN state.permissions :
            Has(state.permissions[i], "name") /\ state.permissions[i].name = permission

hasRole(role) == IF ~Truthy(state.user) THEN FALSE ELSE RoleOf(state.user) = role

hasAnyRole(roles) == IF ~Truthy(state.user) THEN FALSE ELSE RoleOf(state.user) \in roles

----------------------------------------------------------------------------
(* StudentAttendanceView: the values the server is driven with *)

\* GET calls of the view that may be awaiting at once
MaxLoads == 3

\* a bare identifier, as opposed to a populated object carrying _id
Ref(id) == [ref |-> id]

OtherTeacher == [id |-> 9, role |-> "Teacher"]
Viewers == {AdminUser, TeacherUser, OtherTeacher, StudentUser}

\* the institute's classes: TeacherUser leads the first, OtherTeacher the second,
\* and both teach in both
ClassA == [_id |-> "c1", classIncharge |-> Ref(2)]
ClassB == [_id |-> "c2", classIncharge |-> [_id |-> 9]]

\* what GET /api/classes and GET /api/classes/teacher-access/{id} return
ClassesOf(endpoint) == <<ClassA, ClassB>>

Student(id) == [_id |-> id]
Roster(classId) ==
    CASE classId = "c1" -> <<Student("s1"), Student("s2")>>
      [] classId = "c2" -> <<Student("s3")>>
      [] OTHER -> <<>>

Dates == {"d1", "d2"}

\* an attendance record as the server returns it
Sheet(id, status) ==
    [student |-> Student(id), status |-> status, markedAt |-> 0, markedBy |-> 9]

\* what GET /api/attendance/class/{id}/date/{date} may return
Sheets(classId) ==
    CASE classId = "c1" ->
            { <<>>, <<Sheet("s2", "absent")>> }
      [] classId = "c2" -> { <<>>, <<Sheet("s3", "present")>> }
      [] OTHER -> { <<>> }

\* how a GET of the view may settle
Failures == { Resolve([success |-> FALSE]), Reject([message |-> Str(NetworkErrorText)]) }
ClassesReplies(endpoint) ==
    { Resolve([success |-> TRUE, data |-> ClassesOf(endpoint)]),
      Resolve([success |-> TRUE]) } \cup Failures
StudentsReplies(classId) ==
    { Resolve([success |-> TRUE, data |-> Roster(classId)]),
      Resolve([success |-> TRUE]) } \cup Failures
AttendanceReplies(classId) ==
    { Resolve([success |-> TRUE, data |-> sheet]) : sheet \in Sheets(classId) }
    \cup { Resolve([success |-> TRUE]) } \cup Failures
MarkReplies == { Resolve([success |-> TRUE]) } \cup Failures

----------------------------------------------------------------------------
(* StudentAttendanceView: helpers *)

EmptyMap == [k \in {} |-> TRUE]
Ids(list) == {list[i]._id : i \in DOMAIN list}
Marked(map, id) == id \in DOMAIN map

\* { ...prev, [studentId]: record }
Put(map, id, record) ==
    [k \in DOMAIN map \cup {id} |-> IF k = id THEN record ELSE map[k]]

\* Array.prototype.filter, keeping the order
Filter(list, keep(_)) == SelectSeq(list, keep)

StudentsRequest(classId) == [kind |-> "students", classId |-> classId]
AttendanceRequest(classId, date) ==
    [kind |-> "attendance", classId |-> classId, date |-> date]

\* the view renders its controls only when some class is accessible
Rendered == Len(classes) > 0

\* a variant whose pending count ignores the absent records
getAttendanceStats_PresentOnly ==
    LET total == Len(students)
        marked == Cardinality(DOMAIN attendance)
        present == Cardinality({k \in DOMAIN attendance : attendance[k].status = "present"})
        absent == Cardinality({k \in DOMAIN attendance : attendance[k].status = "absent"})
    IN [total |-> total, marked |-> marked, present |-> present, absent |-> absent,
        unmarked |-> total - present]

getAttendanceStats ==
    LET total == Len(students)
        marked == Cardinality(DOMAIN attendance)
        present == Cardinality({k \in DOMAIN attendance : attendance[k].status = "present"})
        absent == Cardinality({k \in DOMAIN attendance : attendance[k].status = "absent"})
    IN [total |-> total, marked |-> marked, present |-> present, absent |-> absent,
        unmarked |-> total - marked]

NoFlow == [op |-> "none"]
RunIdle == [active |-> FALSE]

----------------------------------------------------------------------------
(* StudentAttendanceView: loading *)

\* a variant of the effect that reloads the roster only
ReloadRequests_RosterOnly(class, date) == {StudentsRequest(class._id)}

\* the effect on [selectedClass, attendanceDate]: loadStudents up to its await
\* (setLoading(true), the GET) and loadExistingAttendance up to its await
ReloadRequests(class, date) ==
    {StudentsRequest(class._id), AttendanceRequest(class._id, date)}

CanIssue(new) ==
    /\ new \cap requests = {}
    /\ Cardinality(requests) + Cardinality(new) <= MaxLoads

\* a variant that keeps every class that has a lead, whoever it is
IsIncharge_Anyone(cls, user) == Has(cls, "classIncharge")

\* cls.classIncharge?._id === user.id || cls.classIncharge === user.id
IsIncharge(cls, user) ==
    /\ Has(cls, "classIncharge")
    /\ \/ Has(cls.classIncharge, "_id") /\ cls.classIncharge._id = user.id
       \/ Has(cls.classIncharge, "ref") /\ cls.classIncharge.ref = user.id

\* the endpoint loadAccessibleClasses picks for the viewer's role, "" for none
EndpointFor(user) ==
    IF RoleOf(user) = "InstituteAdmin" \/ RoleOf(user) = "IT" THEN "/api/classes"
    ELSE IF RoleOf(user) = "Teacher" THEN "/api/classes/teacher-access"
    ELSE ""

\* loadAccessibleClasses up to its await, or to its end for a role without access
LoadAccessibleClassesStart ==
    /\ pcClasses = "start"
    /\ IF EndpointFor(viewer) = ""
       THEN /\ classes' = <<>>
            /\ loading' = FALSE
            /\ pcClasses' = "done"
       ELSE /\ loading' = TRUE
            /\ pcClasses' = "awaiting"
            /\ UNCHANGED classes
    /\ finished' = NoFlow
    /\ UNCHANGED <<viewer, selectedClass, attendanceDate, students, attendance, saving,
                   requests, writes, run>>
    /\ UNCHANGED <<authVars, cardVars>>

\* the classes call settles; selecting the first class runs the reload effect
LoadAccessibleClassesSettle ==
    /\ pcClasses = "awaiting"
    /\ \E reply \in ClassesReplies(EndpointFor(viewer)) :
        /\ IF reply.kind = "resolve" /\ SuccessOf(reply.response)
           THEN LET accessibleClasses ==
                        IF Has(reply.response, "data") THEN reply.response.data ELSE <<>>
                    Lead(cls) == IsIncharge(cls, viewer)
                    filteredClasses ==
                        IF RoleOf(viewer) = "Teacher" THEN Filter(accessibleClasses, Lead)
                        ELSE accessibleClasses
                IN /\ classes' = filteredClasses
                   /\ IF Len(filteredClasses) > 0
                      THEN /\ selectedClass' = filteredClasses[1]
                           /\ requests' = requests
                                   \cup ReloadRequests(filteredClasses[1], attendanceDate)
                           /\ loading' = TRUE
                      ELSE /\ loading' = FALSE
                           /\ UNCHANGED <<selectedClass, requests>>
           ELSE /\ loading' = FALSE
                /\ UNCHANGED <<classes, selectedClass, requests>>
        /\ finished' = [op |-> "loadAccessibleClasses", endpoint |-> EndpointFor(viewer),
                        reply |-> reply]
    /\ pcClasses' = "done"
    /\ UNCHANGED <<viewer, attendanceDate, students, attendance, saving, writes, run>>
    /\ UNCHANGED <<authVars, cardVars>>

\* the class select changes; the effect reloads roster and attendance
SelectClass ==
    /\ Rendered
    /\ \E i \in DOMAIN classes :
        /\ classes[i] # selectedClass
        /\ CanIssue(ReloadRequests(classes[i], attendanceDate))
        /\ selectedClass' = classes[i]
        /\ requests' = requests \cup ReloadRequests(classes[i], attendanceDate)
    /\ loading' = TRUE
    /\ finished' = NoFlow
    /\ UNCHANGED <<viewer, classes, attendanceDate, students, attendance, saving,
                   pcClasses, writes, run>>
    /\ UNCHANGED <<authVars, cardVars>>

\* the date input changes; the effect reloads roster and attendance
ChangeDate ==
    /\ Rendered
    /\ \E date \in Dates :
        /\ date # attendanceDate
        /\ attendanceDate' = date
        /\ IF selectedClass # Null
           THEN /\ CanIssue(ReloadRequests(selectedClass, date))
                /\ requests' = requests \cup ReloadRequests(selectedClass, date)
                /\ loading' = TRUE
           ELSE UNCHANGED <<requests, loading>>
    /\ finished' = NoFlow
    /\ UNCHANGED <<viewer, classes, selectedClass, students, attendance, saving,
                   pcClasses, writes, run>>
    /\ UNCHANGED <<authVars, cardVars>>

\* the Refresh button: loadExistingAttendance up to its await
Refresh ==
    /\ Rendered
    /\ ~loading
    /\ selectedClass # Null
    /\ CanIssue({AttendanceRequest(selectedClass._id, attendanceDate)})
    /\ requests' = requests \cup {AttendanceRequest(selectedClass._id, attendanceDate)}
    /\ finished' = NoFlow
    /\ UNCHANGED <<viewer, classes, selectedClass, attendanceDate, students, attendance,
                   loading, saving, pcClasses, writes, run>>
    /\ UNCHANGED <<authVars, cardVars>>

\* loadStudents after its await
LoadStudentsSettle ==
    /\ \E request \in requests :
        /\ request.kind = "students"
        /\ requests' = requests \ {request}
        /\ \E reply \in StudentsReplies(request.classId) :
            IF reply.kind = "resolve" /\ SuccessOf(reply.response)
            THEN students' = IF Has(reply.response, "data")
                             THEN reply.response.data ELSE <<>>
            ELSE UNCHANGED students
    /\ loading' = FALSE
    /\ finished' = NoFlow
    /\ UNCHANGED <<viewer, classes, selectedClass, attendanceDate, attendance, saving,
                   pcClasses, writes, run>>
    /\ UNCHANGED <<authVars, cardVars>>

\* the map loadExistingAttendance builds from the records of a response
RECURSIVE attendanceMap(_)
attendanceMap(records) ==
    IF records = <<>> THEN EmptyMap
    ELSE LET record == records[Len(records)]
         IN Put(attendanceMap(SubSeq(records, 1, Len(records) - 1)),
                record.student._id,
                [status |-> record.status, markedAt |-> record.markedAt,
                 markedBy |-> record.markedBy])

\* loadExistingAttendance after its await
LoadExistingAttendanceSettle ==
    /\ \E request \in requests :
        /\ request.kind = "attendance"
        /\ requests' = requests \ {request}
        /\ \E reply \in AttendanceReplies(request.classId) :
            /\ IF reply.kind = "resolve" /\ SuccessOf(reply.response)
                     /\ Has(reply.response, "data")
               THEN attendance' = attendanceMap(reply.response.data)
               ELSE attendance' = EmptyMap
            /\ finished' = [op |-> "loadExistingAttendance", request |-> request,
                            reply |-> reply]
    /\ run' = IF run.active THEN [run EXCEPT !.clean = FALSE] ELSE run
    /\ UNCHANGED <<viewer, classes, selectedClass, attendanceDate, students, loading,
                   saving, pcClasses, writes>>
    /\ UNCHANGED <<authVars, cardVars>>

----------------------------------------------------------------------------
(* StudentAttendanceView: marking *)

\* the body of the POST issued by markAttendance from the render it closes over
MarkRequest(studentId, status, class, date, user, flow) ==
    [studentId |-> studentId, classId |-> class._id, date |-> date,
     status |-> status, markedBy |-> user.id, flow |-> flow]

\* new Date(): the model does not advance the clock
now == 1

\* the record markAttendance merges when its write succeeded
LocalRecord(write) ==
    [status |-> write.status, markedAt |-> now, markedBy |-> write.markedBy]

\* a variant that merges the record whatever the write's outcome
Merged_Always(write, reply) == Put(attendance, write.studentId, LocalRecord(write))

\* the attendance map after the write settled with reply
Merged(write, reply) ==
    IF reply.kind = "resolve" /\ SuccessOf(reply.response)
    THEN Put(attendance, write.studentId, LocalRecord(write))
    ELSE attendance

\* a variant in which the buttons stay enabled while a write is in progress
MarkButtonsDisabled_Never == FALSE

\* disabled={saving} on the present and absent buttons of every student
MarkButtonsDisabled == saving

\* a present or absent button: markAttendance up to its await
MarkAttendanceCall ==
    /\ Rendered
    /\ ~MarkButtonsDisabled
    /\ selectedClass # Null
    /\ \E i \in DOMAIN students, status \in {"present", "absent"} :
          writes' = writes \cup {MarkRequest(students[i]._id, status, selectedClass,
                                             attendanceDate, viewer, "single")}
    /\ saving' = TRUE
    /\ finished' = NoFlow
    /\ UNCHANGED <<viewer, classes, selectedClass, attendanceDate, students, attendance,
                   loading, pcClasses, requests, run>>
    /\ UNCHANGED <<authVars, cardVars>>

\* markAttendance after its await, when called from a button
MarkAttendanceSettle ==
    /\ \E write \in writes :
        /\ write.flow = "single"
        /\ writes' = writes \ {write}
        /\ \E reply \in MarkReplies :
            /\ attendance' = Merged(write, reply)
            /\ finished' = [op |-> "markAttendance", write |-> write, reply |-> reply]
    /\ saving' = FALSE
    /\ UNCHANGED <<viewer, classes, selectedClass, attendanceDate, students, loading,
                   pcClasses, requests, run>>
    /\ UNCHANGED <<authVars, cardVars>>

\* a variant that takes every student of the roster
unmarkedStudents_All == students

\* students.filter(student => !attendance[student._id])
unmarkedStudents ==
    LET Unmarked(student) == ~Marked(attendance, student._id)
    IN Filter(students, Unmarked)

\* what a markAllPresent run leaves behind when it ends
RunSummary(r) ==
    [op |-> "markAllPresent", roster |-> r.roster, startMap |-> r.startMap,
     ok |-> r.ok, failed |-> r.failed, replaced |-> r.replaced, clean |-> r.clean]

\* the Mark All Present button: markAllPresent up to the await of its first
\* write, or to its end when no student is unmarked
MarkAllPresentCall ==
    /\ Rendered
    /\ ~saving
    /\ getAttendanceStats.unmarked # 0
    /\ LET todo == unmarkedStudents
           begun == [active |-> TRUE, queue |-> <<>>, class |-> selectedClass,
                     date |-> attendanceDate, user |-> viewer,
                     roster |-> Ids(students), startMap |-> attendance,
                     ok |-> {}, failed |-> {}, replaced |-> {}, clean |-> TRUE]
       IN IF todo = <<>> \/ selectedClass = Null
          THEN /\ saving' = FALSE
               /\ finished' = RunSummary(begun)
               /\ UNCHANGED <<writes, run>>
          ELSE /\ saving' = TRUE
               /\ writes' = writes \cup {MarkRequest(Head(todo)._id, "present",
                                             selectedClass, attendanceDate, viewer, "all")}
               /\ run' = [begun EXCEPT !.queue = Tail(todo)]
               /\ finished' = NoFlow
    /\ UNCHANGED <<viewer, classes, selectedClass, attendanceDate, students, attendance,
                   loading, pcClasses, requests>>
    /\ UNCHANGED <<authVars, cardVars>>

\* a variant in which a failed write ends the loop
Remaining_StopOnFailure(queue, reply) ==
    IF reply.kind = "resolve" /\ SuccessOf(reply.response) THEN queue ELSE <<>>

\* the students the for...of loop still visits after a call of markAttendance:
\* markAttendance catches whatever its write throws, so all that were left
Remaining(queue, reply) == queue

\* a write of the loop settles: markAttendance runs to its end and the loop
\* goes on to the await of the next student's write, or markAllPresent ends
MarkAllPresentStep ==
    /\ run.active
    /\ \E write \in writes :
        /\ write.flow = "all"
        /\ \E reply \in MarkReplies :
            LET done == reply.kind = "resolve" /\ SuccessOf(reply.response)
                rest == Remaining(run.queue, reply)
                after ==
                    [run EXCEPT
                       !.ok = IF done THEN @ \cup {write.studentId} ELSE @,
                       !.failed = IF done THEN @ ELSE @ \cup {write.studentId},
                       !.replaced = IF done /\ Marked(attendance, write.studentId)
                                    THEN @ \cup {write.studentId} ELSE @]
            IN /\ attendance' = Merged(write, reply)
               /\ IF rest = <<>>
                  THEN /\ writes' = writes \ {write}
                       /\ saving' = FALSE
                       /\ run' = RunIdle
                       /\ finished' = RunSummary(after)
                  ELSE /\ writes' = (writes \ {write})
                            \cup {MarkRequest(Head(rest)._id, "present",
                                              run.class, run.date, run.user, "all")}
                       /\ saving' = TRUE
                       /\ run' = [after EXCEPT !.queue = Tail(rest)]
                       /\ finished' = NoFlow
    /\ UNCHANGED <<viewer, classes, selectedClass, attendanceDate, students, loading,
                   pcClasses, requests>>
    /\ UNCHANGED <<authVars, cardVars>>

ViewInit ==
    /\ classes = <<>>
    /\ selectedClass = Null
    /\ attendanceDate = "d1"
    /\ students = <<>>
    /\ attendance = EmptyMap
    /\ loading = FALSE
    /\ saving = FALSE
    /\ pcClasses = "start"
    /\ requests = {}
    /\ writes = {}
    /\ run = RunIdle
    /\ finished = NoFlow

----------------------------------------------------------------------------
(* StatsCards *)

\* a JavaScript number, and NaN
Num(n) == [num |-> n]
NaN == [nan |-> TRUE]

IsDigit(c) == c \in {"0", "1", "2", "3", "4", "5", "6", "7", "8", "9"}
DigitValue(c) ==
    CASE c = "0" -> 0 [] c = "1" -> 1 [] c = "2" -> 2 [] c = "3" -> 3 [] c = "4" -> 4
      [] c = "5" -> 5 [] c = "6" -> 6 [] c = "7" -> 7 [] c = "8" -> 8 [] c = "9" -> 9

\* the value of the longest prefix of digits of cs, after the digits worth acc
RECURSIVE ParseDigits(_, _)
ParseDigits(cs, acc) ==
    IF cs = <<>> \/ ~IsDigit(Head(cs)) THEN acc
    ELSE ParseDigits(Tail(cs), 10 * acc + DigitValue(Head(cs)))

\* parseInt(v) for undefined and for a string without sign or leading blanks:
\* the number its leading digits spell, NaN when it does not start with a digit
parseInt(v) ==
    IF ~Has(v, "str") THEN NaN
    ELSE IF v.str = <<>> \/ ~IsDigit(Head(v.str)) THEN NaN
    ELSE Num(ParseDigits(v.str, 0))

\* a > n for a number or NaN a: false for NaN
GreaterThan(a, n) == Has(a, "num") /\ a.num > n

\* an object keyed by level number
Table(entries) == [entries |-> entries]

\* table?.[level]: the entry of the table under the key the level spells
At(table, level) ==
    IF ~Has(table, "entries") THEN Undefined
    ELSE IF Has(level, "num") /\ level.num \in DOMAIN table.entries
         THEN table.entries[level.num]
    ELSE Undefined

\* object?.[field]
Get(object, field) ==
    IF object = Undefined THEN Undefined
    ELSE IF Has(object, field) THEN object[field]
    ELSE Undefined

\* entry?.notProgressed || 0
NotProgressedOrZero(entry) ==
    IF entry = Undefined THEN 0
    ELSE IF Has(entry, "notProgressed") THEN entry.notProgressed
    ELSE 0

getNonProgressionData(p) ==
    IF \/ ~Has(p.currentData, "levelProgression")
       \/ ~Has(p.currentData, "genderLevelProgression")
       \/ parseInt(p.selectedLevel) = Num(1)
    THEN [total |-> 0, boys |-> 0, girls |-> 0]
    ELSE LET level == parseInt(p.selectedLevel)
             levelData == At(p.currentData.levelProgression, level)
             boysData == At(Get(p.currentData.genderLevelProgression, "boys"), level)
             girlsData == At(Get(p.currentData.genderLevelProgression, "girls"), level)
         IN [total |-> NotProgressedOrZero(levelData),
             boys |-> NotProgressedOrZero(boysData),
             girls |-> NotProgressedOrZero(girlsData)]

\* the three cards, with the fields the figure and the click depend on
cards(p) ==
    LET nonProgressionData == getNonProgressionData(p) IN
    << [title |-> "Total Students", value |-> p.currentData.total,
        nonProgressed |-> nonProgressionData.total, view |-> "total"],
       [title |-> "Boys", value |-> p.currentData.boys,
        nonProgressed |-> nonProgressionData.boys, view |-> "gender", gender |-> "boys"],
       [title |-> "Girls", value |-> p.currentData.girls,
        nonProgressed |-> nonProgressionData.girls, view |-> "gender",
        gender |-> "girls"] >>

\* card.nonProgressed > 0 && parseInt(selectedLevel) > 1: the figure is rendered
ShowsNonProgressed(p, card) ==
    card.nonProgressed > 0 /\ GreaterThan(parseInt(p.selectedLevel), 1)

\* the arguments onCardClick is called with for a card
CardCall(card) ==
    IF Has(card, "gender") THEN [view |-> card.view, gender |-> card.gender]
    ELSE [view |-> card.view]

\* a variant that forwards the click while loading too
onClick_IgnoreLoading(p, card) == [forwarded |-> TRUE, call |-> CardCall(card)]

\* onClick of a card: !loading && onCardClick(card.view, card.gender)
onClick(p, card) ==
    IF ~p.loading THEN [forwarded |-> TRUE, call |-> CardCall(card)]
    ELSE [forwarded |-> FALSE]

\* the progression tables a dashboard response may carry per level
Progression(n1, n2) ==
    Table((1 :> [notProgressed |-> n1]) @@ (2 :> [notProgressed |-> n2]))

\* the currentData the parent may pass
CurrentDatas ==
    { [total |-> 9, boys |-> 5, girls |-> 4],
      [total |-> 9, boys |-> 5, girls |-> 4, levelProgression |-> Progression(0, 3)],
      [total |-> 9, boys |-> 5, girls |-> 4,
       levelProgression |-> Progression(4, 3),
       genderLevelProgression |->
           [boys |-> Progression(3, 2), girls |-> Progression(1, 1)]],
      [total |-> 9, boys |-> 5, girls |-> 4,
       levelProgression |-> Progression(4, 2),
       genderLevelProgression |-> [boys |-> Progression(4, 0)]],
      [total |-> 9, boys |-> 5, girls |-> 4,
       levelProgression |->
           Table((0 :> [notProgressed |-> 2]) @@ (2 :> [progressed |-> 7])),
       genderLevelProgression |-> [girls |-> Table(0 :> [notProgressed |-> 2])]] }

\* the selectedLevel the parent may pass
SelectedLevels ==
    { Str(<<"1">>), Str(<<"2">>), Str(<<"0">>), Str(<<"1", "2">>), Str(<<"1", "x">>),
      Str(<<"a", "l", "l">>), Undefined }

Props == [currentData : CurrentDatas, selectedLevel : SelectedLevels, loading : BOOLEAN]

NoClick == [card |-> 0]

\* a click on one of the cards
CardClick ==
    /\ \E i \in DOMAIN cards(props) :
          clicked' = [card |-> i, result |-> onClick(props, cards(props)[i])]
    /\ UNCHANGED props
    /\ UNCHANGED <<authVars, viewVars>>

\* the parent renders StatsCards with other props
Render ==
    /\ \E p \in Props : p # props /\ props' = p
    /\ clicked' = NoClick
    /\ UNCHANGED <<authVars, viewVars>>

\* StatsCards is not on the page
CardsIdle ==
    /\ props = [currentData |-> [total |-> 9, boys |-> 5, girls |-> 4],
                selectedLevel |-> Str(<<"1">>), loading |-> FALSE]
    /\ clicked = NoClick

----------------------------------------------------------------------------
(* The session holder as a whole *)

AuthInit ==
    /\ state = initialState
    /\ clearTokensCalls = 0
    /\ pcInit = "start"
    /\ initLocals = [threw |-> FALSE, token |-> Null, userData |-> Null]
    /\ getCurrentUserCalls = 0
    /\ inflight = [op \in Ops |-> Idle]
    /\ returned = NoCall
    /\ touched = FALSE
    /\ loggedOut = FALSE

\* the provider mounts with whatever the token store holds
Init ==
    /\ tokenStore \in [accessToken : CachedTokens, userData : CachedUsers]
    /\ AuthInit
    /\ viewer = StudentUser
    /\ ViewInit
    /\ CardsIdle

\* The session: initialization and the functions that dispatch, with up to
\* MaxPending of them awaiting their collaborator at once.  The remaining
\* functions never read or write the session state, so leaving their calls out
\* removes no session state.
Next ==
    \/ InitializeAuthStart
    \/ InitializeAuthSettle
    \/ /\ Cardinality(Pending) < MaxPending
       /\ \/ LoginCall
          \/ RegisterCall
          \/ LogoutCall
          \/ UpdateProfileCall
    \/ LoginSettle
    \/ RegisterSettle
    \/ LogoutSettle
    \/ UpdateProfileSettle
    \/ clearError

Spec == Init /\ [][Next]_vars

\* All nine action functions, called one at a time: the result of a function
\* depends on how its own collaborator call settles and on nothing else.
NextActions ==
    \/ InitializeAuthStart
    \/ InitializeAuthSettle
    \/ /\ Pending = {}
       /\ \/ LoginCall
          \/ RegisterCall
          \/ LogoutCall
          \/ UpdateProfileCall
          \/ PlainCall
    \/ LoginSettle
    \/ RegisterSettle
    \/ LogoutSettle
    \/ UpdateProfileSettle
    \/ PlainSettle

SpecActions == Init /\ [][NextActions]_vars

\* The attendance view on its own
NextView ==
    \/ LoadAccessibleClassesStart
    \/ LoadAccessibleClassesSettle
    \/ SelectClass
    \/ ChangeDate
    \/ Refresh
    \/ LoadStudentsSettle
    \/ LoadExistingAttendanceSettle
    \/ MarkAttendanceCall
    \/ MarkAttendanceSettle
    \/ MarkAllPresentCall
    \/ MarkAllPresentStep

\* the view mounts for some viewer
InitView ==
    /\ tokenStore = [accessToken |-> Null, userData |-> Null]
    /\ AuthInit
    /\ viewer \in Viewers
    /\ ViewInit
    /\ CardsIdle

SpecView == InitView /\ [][NextView]_vars

\* StatsCards on its own
NextCards ==
    \/ CardClick
    \/ Render

\* StatsCards is rendered with some props
InitCards ==
    /\ tokenStore = [accessToken |-> Null, userData |-> Null]
    /\ AuthInit
    /\ viewer = StudentUser
    /\ ViewInit
    /\ props \in Props
    /\ clicked = NoClick

SpecCards == InitCards /\ [][NextCards]_vars

----------------------------------------------------------------------------
(* Properties of initializeAuth *)

IsString(v) == Has(v, "str")

\* the step just taken was the end of initializeAuth's background validation
ValidationSettled == returned.op = "initializeAuth"

\* the validation failed: the call rejected, or resolved with success = false
ValidationFailed ==
    /\ ValidationSettled
    /\ \/ returned.reply.kind = "reject"
       \/ /\ returned.reply.kind = "resolve"
          /\ returned.reply.response # Undefined
          /\ Has(returned.reply.response, "success")
          /\ ~returned.reply.response.success

\* the validation call rejected with status 401
RejectedWith401 ==
    /\ ValidationSettled
    /\ returned.reply.kind = "reject"
    /\ Has(returned.reply.error, "status")
    /\ returned.reply.error.status = 401

SessionCleared ==
    /\ ~state.isAuthenticated
    /\ state.user = Null
    /\ state.permissions = <<>>
    /\ ~state.isLoading

\* C1: when the background validation fails in any way other than a rejection
\* with status 401, whatever the message of the error, clearTokens is not
\* called and the session is still authenticated with the cached user (no
\* action function having dispatched meanwhile).
C1_OtherFailureKeepsSession ==
    (ValidationFailed /\ ~RejectedWith401) =>
        /\ clearTokensCalls = 0
        /\ ~touched => (state.isAuthenticated /\ state.user = initLocals.userData)

\* C2: when the background validation rejects with status 401 the session is
\* cleared (not authenticated, no user, no permissions, not loading) and
\* clearTokens has been called.
C2_UnauthorizedClearsSession ==
    RejectedWith401 =>
        /\ SessionCleared
        /\ clearTokensCalls = 1
        /\ tokenStore = [accessToken |-> Null, userData |-> Null]

C2_Witness ==
    /\ RejectedWith401
    /\ Truthy(initLocals.userData)
    /\ SessionCleared

\* the validation resolved with success and a payload: the payload is the
\* user property of the data when there is one, else the data itself
ValidationSucceeded ==
    /\ ValidationSettled
    /\ returned.reply.kind = "resolve"
    /\ returned.reply.response # Undefined
    /\ Has(returned.reply.response, "success")
    /\ returned.reply.response.success
    /\ Has(returned.reply.response, "data")

FreshPayload ==
    IF Has(returned.reply.response.data, "user")
    THEN returned.reply.response.data.user
    ELSE returned.reply.response.data

\* C3: with a cached token and user the session is first authenticated with
\* the cached user, and once the validation has resolved with success the
\* session user and permissions are those of the server's payload.
C3_FreshPayloadReplacesCached ==
    /\ (pcInit = "validating" /\ ~touched) =>
            /\ state.isAuthenticated
            /\ state.user = initLocals.userData
            /\ state.permissions = (IF Has(initLocals.userData, "permissions")
                                    THEN initLocals.userData.permissions ELSE <<>>)
    /\ ValidationSucceeded =>
            /\ state.isAuthenticated
            /\ state.user = FreshPayload
            /\ state.permissions = (IF Has(FreshPayload, "permissions")
                                    THEN FreshPayload.permissions ELSE <<>>)

C3_Witness ==
    /\ ValidationSucceeded
    /\ ~touched
    /\ FreshPayload # initLocals.userData
    /\ state.user = FreshPayload

\* the names in the session's permission set
SessionPermissionNames ==
    {state.permissions[i].name : i \in DOMAIN state.permissions}

\* C4: hasPermission is true for every name when the session user's role is
\* InstituteAdmin, for any other role true exactly for the names in the
\* session's permission set, and false when there is no session user.
C4_HasPermission ==
    \A name \in PermNames :
        /\ state.user = Null => ~hasPermission(name)
        /\ (state.user # Null /\ RoleOf(state.user) = "InstituteAdmin")
                => hasPermission(name)
        /\ (state.user # Null /\ RoleOf(state.user) # "InstituteAdmin")
                => (hasPermission(name) <=> name \in SessionPermissionNames)

C4_Witness ==
    /\ state.user # Null
    /\ RoleOf(state.user) = "Teacher"
    /\ hasPermission("attendance")
    /\ ~hasPermission("fees")

C4_WitnessAdmin ==
    /\ state.user # Null
    /\ RoleOf(state.user) = "InstituteAdmin"
    /\ state.permissions = <<>>
    /\ hasPermission("fees")

----------------------------------------------------------------------------
(* Properties of the action functions *)

\* the step just taken was the end of the action function op
Returned(op) == returned.op = op

\* the collaborator call of the function that just returned failed: it
\* rejected, or resolved with success = false
CallFailed ==
    \/ returned.reply.kind = "reject"
    \/ /\ returned.reply.kind = "resolve"
       /\ returned.reply.response # Undefined
       /\ Has(returned.reply.response, "success")
       /\ ~returned.reply.response.success

\* the collaborator call of the function that just returned reported success
CallSucceeded ==
    /\ returned.reply.kind = "resolve"
    /\ returned.reply.response # Undefined
    /\ Has(returned.reply.response, "success")
    /\ returned.reply.response.success

\* C5: when the collaborator call of login or register fails, the state has
\* an error message and is not authenticated, with no user, whatever the
\* session was before.
C5_FailureClearsAuthentication ==
    ((Returned("login") \/ Returned("register")) /\ CallFailed) =>
        /\ state.error # Null
        /\ ~state.isAuthenticated
        /\ state.user = Null

\* C6: logout ends by dispatching LOGOUT whether the remote call resolved or
\* rejected, so the session is cleared with no error; it called logoutAll
\* when its argument was true and logout otherwise.
C6_LogoutAlwaysClears ==
    Returned("logout") =>
        /\ SessionCleared
        /\ state.error = Null
        /\ returned.call.method = (IF returned.call.logoutAll THEN "logoutAll" ELSE "logout")

C6_Witness ==
    /\ Returned("logout")
    /\ returned.reply.kind = "reject"
    /\ returned.call.logoutAll
    /\ Truthy(initLocals.userData)

\* the uniform result: a success flag with data, or with an error message string
UniformResult(value) ==
    /\ Has(value, "success")
    /\ \/ value.success /\ Has(value, "data")
       \/ ~value.success /\ Has(value, "error") /\ IsString(value.error)

\* C7 as stated: every action function, logout included, resolves to a
\* uniform result and never throws to its caller.
C7_EveryFunctionUniform ==
    returned.op \in Ops => (~returned.threw /\ UniformResult(returned.value))

\* C7 as amended: no action function throws to its caller; every one but
\* logout resolves to a uniform result, and logout resolves to undefined.
C7_UniformExceptLogout ==
    returned.op \in Ops =>
        /\ ~returned.threw
        /\ returned.op # "logout" => UniformResult(returned.value)
        /\ returned.op = "logout" => returned.value = Undefined

C7_Witness ==
    /\ Returned("revokeSession")
    /\ returned.reply.kind = "reject"
    /\ ~Has(returned.reply.error, "message")
    /\ returned.value = Failure(Str(RevokeSessionFailedText))

\* C8: for every action function that returns a result, the result reports
\* success only if the collaborator reported success, and is a failure with
\* an error message whenever the collaborator call failed.
C8_FailureSurfaced ==
    (returned.op \in Ops \ {"logout"}) =>
        /\ returned.value.success => CallSucceeded
        /\ CallFailed => /\ ~returned.value.success
                         /\ Has(returned.value, "error")
                         /\ IsString(returned.value.error)

\* C9: initialization calls getCurrentUser exactly once when a token and a
\* user are both cached and never otherwise, a failed validation included;
\* without both the session ends not authenticated and not loading.
C9_OneValidationCall ==
    LET both == Truthy(initLocals.token) /\ Truthy(initLocals.userData) IN
    /\ pcInit = "start" => getCurrentUserCalls = 0
    /\ pcInit = "validating" => (both /\ getCurrentUserCalls = 1)
    /\ pcInit = "done" => getCurrentUserCalls = (IF both THEN 1 ELSE 0)
    /\ (pcInit = "done" /\ ~both /\ ~touched) =>
            (~state.isAuthenticated /\ ~state.isLoading)

C9_Witness ==
    /\ ValidationFailed
    /\ pcInit = "done"
    /\ getCurrentUserCalls = 1
    /\ Pending # {}

C9_WitnessNoCache ==
    /\ pcInit = "done"
    /\ Truthy(initLocals.token)
    /\ ~Truthy(initLocals.userData)
    /\ getCurrentUserCalls = 0

----------------------------------------------------------------------------
(* Properties of markAllPresent *)

\* the step just taken was the end of a markAllPresent run
RunEnded == finished.op = "markAllPresent"

\* the students of the roster without a record when the run was invoked
UnmarkedAtStart == {id \in finished.roster : ~Marked(finished.startMap, id)}

\* C10 as stated: after markAllPresent every student unmarked at invocation
\* has a present record, and every record that existed before or appeared
\* during the run is as it was: the loop replaced none.
C10_AllPresentOthersUntouched ==
    RunEnded =>
        /\ \A id \in UnmarkedAtStart :
              Marked(attendance, id) /\ attendance[id].status = "present"
        /\ \A id \in finished.roster \ UnmarkedAtStart :
              Marked(attendance, id) /\ attendance[id] = finished.startMap[id]
        /\ finished.replaced = {}

\* C10 as amended: the loop writes exactly the students unmarked at
\* invocation, so never one marked before; provided no attendance load
\* replaced the map during the run, those whose write succeeded have a
\* present record, those whose write failed have none, and the records
\* that existed at invocation are as they were.
C10_SucceededPresentMarkedUntouched ==
    RunEnded =>
        /\ finished.ok \cup finished.failed = UnmarkedAtStart
        /\ finished.ok \cap finished.failed = {}
        /\ finished.clean =>
              /\ finished.replaced = {}
              /\ \A id \in finished.ok :
                    Marked(attendance, id) /\ attendance[id].status = "present"
              /\ \A id \in finished.failed : ~Marked(attendance, id)
              /\ \A id \in finished.roster \ UnmarkedAtStart :
                    Marked(attendance, id) /\ attendance[id] = finished.startMap[id]

C10_Witness ==
    /\ RunEnded
    /\ finished.clean
    /\ finished.ok # {}
    /\ finished.failed # {}

C10_WitnessMarkedBefore ==
    /\ RunEnded
    /\ finished.clean
    /\ finished.ok # {}
    /\ \E id \in finished.roster : Marked(finished.startMap, id)
                                   /\ finished.startMap[id].status = "absent"

----------------------------------------------------------------------------
(* Properties of the derived attendance figures *)

\* the records of the map with the given status, counted from the map itself
WithStatus(status) == {k \in DOMAIN attendance : attendance[k].status = status}

\* C11: in every state of the attendance view the derived figures satisfy
\* unmarked = total - (present + absent) and marked = present + absent, where
\* total is the size of the roster and present and absent count the records
\* of the map with that status.
C11_StatsAddUp ==
    LET stats == getAttendanceStats IN
    /\ stats.total = Len(students)
    /\ stats.present = Cardinality(WithStatus("present"))
    /\ stats.absent = Cardinality(WithStatus("absent"))
    /\ stats.marked = stats.present + stats.absent
    /\ stats.unmarked = stats.total - (stats.present + stats.absent)

C11_Witness ==
    /\ getAttendanceStats.present > 0
    /\ getAttendanceStats.absent > 0
    /\ getAttendanceStats.total = 2

----------------------------------------------------------------------------
(* Properties of markAttendance *)

\* the reply was a response reporting success
Succeeded(reply) == reply.kind = "resolve" /\ SuccessOf(reply.response)

\* the history of the run the step belongs to, as the step leaves it
RunAfter == IF run'.active THEN run' ELSE finished'

\* the step ran markAttendance to its end for this write with success
WriteSucceeded(write) ==
    IF write.flow = "single" THEN Succeeded(finished'.reply)
    ELSE write.studentId \in RunAfter.ok

\* the step began a call of markAttendance from a present or absent button
ButtonCallBegan == ~saving /\ saving' /\ ~run'.active

\* the frame of one markAttendance call that ends in the step
MarkAttendanceFrame(write) ==
    IF WriteSucceeded(write)
    THEN /\ DOMAIN attendance' = DOMAIN attendance \cup {write.studentId}
         /\ attendance'[write.studentId].status = write.status
         /\ \A k \in DOMAIN attendance \ {write.studentId} :
               attendance'[k] = attendance[k]
    ELSE attendance' = attendance

\* C12: a call of markAttendance issues exactly one write call (the step that
\* begins it adds one write, the step that ends it removes that write and, from
\* a button, adds none); when the write succeeds the entry of its student gets
\* the given status and every other entry of the map is unchanged; when it
\* responds with a failure or rejects the map is left as it was.
C12_MarkAttendanceFrame ==
    [][ /\ ButtonCallBegan =>
              /\ Cardinality(writes' \ writes) = 1
              /\ \A w \in writes' \ writes : w.flow = "single"
              /\ attendance' = attendance
        /\ finished'.op = "markAttendance" =>
              /\ finished'.write \in writes
              /\ writes' = writes \ {finished'.write}
        /\ \A w \in writes \ writes' :
              /\ MarkAttendanceFrame(w)
              /\ Cardinality(writes' \ writes) <= 1
              /\ \A next \in writes' \ writes :
                    next.flow = "all" /\ w.flow = "all" /\ next.studentId # w.studentId
      ]_vars

\* a button's write failed and the map, which holds records, was left alone
C12_Witness ==
    /\ finished.op = "markAttendance"
    /\ ~Succeeded(finished.reply)
    /\ Cardinality(DOMAIN attendance) >= 1

\* a button's write succeeded and replaced the record of its student
C12_WitnessSuccess ==
    /\ finished.op = "markAttendance"
    /\ Succeeded(finished.reply)
    /\ Cardinality(DOMAIN attendance) = 2
    /\ attendance[finished.write.studentId].status = finished.write.status

----------------------------------------------------------------------------
(* Properties of loadAccessibleClasses *)

\* the id of the class lead, given populated or as a bare id; Null without one
LeadOf(cls) ==
    IF ~Has(cls, "classIncharge") THEN Null
    ELSE IF Has(cls.classIncharge, "_id") THEN cls.classIncharge._id
    ELSE cls.classIncharge.ref

LedByViewer(cls) == LeadOf(cls) = viewer.id

IsAdministrator == RoleOf(viewer) \in {"InstituteAdmin", "IT"}

\* the step just taken was the end of loadAccessibleClasses after its call
ClassesSettled == finished.op = "loadAccessibleClasses"

\* the classes of the response that ended loadAccessibleClasses
ClassesReturned ==
    IF Has(finished.reply.response, "data") THEN finished.reply.response.data ELSE <<>>

\* C13: an administrator gets every class GET /api/classes returned; a
\* Teacher gets, from the teacher-access endpoint, the returned classes whose
\* lead is that user, in order; any other role gets no class and no call is
\* ever made.  Every class of a Teacher's list, and the class selected, is
\* led by that teacher.
C13_RoleGatedClasses ==
    /\ (~IsAdministrator /\ RoleOf(viewer) # "Teacher") =>
          /\ classes = <<>>
          /\ selectedClass = Null
          /\ pcClasses # "awaiting"
          /\ ~ClassesSettled
          /\ requests = {}
          /\ writes = {}
    /\ (ClassesSettled /\ Succeeded(finished.reply)) =>
          /\ IsAdministrator =>
                /\ finished.endpoint = "/api/classes"
                /\ classes = ClassesReturned
          /\ RoleOf(viewer) = "Teacher" =>
                /\ finished.endpoint = "/api/classes/teacher-access"
                /\ classes = SelectSeq(ClassesReturned, LedByViewer)
          /\ selectedClass = IF classes = <<>> THEN Null ELSE classes[1]
    /\ RoleOf(viewer) = "Teacher" =>
          /\ \A i \in DOMAIN classes : LedByViewer(classes[i])
          /\ selectedClass # Null => LedByViewer(selectedClass)

\* a Teacher was returned two classes and kept the one the teacher leads
C13_Witness ==
    /\ ClassesSettled
    /\ Succeeded(finished.reply)
    /\ RoleOf(viewer) = "Teacher"
    /\ Len(ClassesReturned) = 2
    /\ Len(classes) = 1
    /\ selectedClass = classes[1]

\* an administrator was returned two classes and got both
C13_WitnessAdmin ==
    /\ ClassesSettled
    /\ IsAdministrator
    /\ Len(classes) = 2

----------------------------------------------------------------------------
(* Properties of the markAllPresent loop *)

\* the writes in flight that the loop issued
LoopWrites == {w \in writes : w.flow = "all"}

\* the students without a record when the run in progress was invoked
RunTodo == {id \in run.roster : ~Marked(run.startMap, id)}

\* while a run is in progress exactly one of its writes is in flight, and
\* every student unmarked at invocation is settled, in flight or still queued
LoopSequential ==
    /\ Cardinality(LoopWrites) <= 1
    /\ run.active <=> LoopWrites # {}
    /\ run.active =>
          LET awaited == {w.studentId : w \in LoopWrites} IN
          /\ run.ok \cup run.failed \cup awaited \cup Ids(run.queue) = RunTodo
          /\ Cardinality(run.ok) + Cardinality(run.failed) + 1 + Len(run.queue)
                = Cardinality(RunTodo)
    /\ RunEnded => /\ finished.ok \cup finished.failed = UnmarkedAtStart
                   /\ finished.ok \cap finished.failed = {}

\* a step in which a write of the loop settles starts the next student's write
\* if any student is left, whatever the outcome, and a failed write leaves
\* the records merged so far in place
LoopGoesOn ==
    \A w \in LoopWrites \ writes' :
        /\ run.queue # <<>> =>
              /\ run'.active
              /\ writes' \ writes =
                    {MarkRequest(Head(run.queue)._id, "present",
                                 run.class, run.date, run.user, "all")}
              /\ run'.queue = Tail(run.queue)
        /\ run.queue = <<>> => (~run'.active /\ finished'.op = "markAllPresent")
        /\ ~WriteSucceeded(w) =>
              /\ attendance' = attendance
              /\ w.studentId \in RunAfter.failed
              /\ RunAfter.ok = run.ok

\* C14: markAllPresent issues its writes one after another, never two of them
\* in flight; a write that fails or rejects does not stop the loop, every
\* student unmarked at invocation is attempted, and a failure undoes no
\* record merged for an earlier student.
C14_SequentialNoRollback == [](LoopSequential) /\ [][LoopGoesOn]_vars

\* a run ended in which one write failed and another succeeded and stayed
C14_Witness ==
    /\ RunEnded
    /\ Cardinality(finished.failed) = 1
    /\ Cardinality(finished.ok) = 1
    /\ \A id \in finished.ok : Marked(attendance, id)

----------------------------------------------------------------------------
(* Properties of the reload on a change of class or date *)

\* the step changed the selected class or the date, and a class is selected
PairChanged ==
    /\ selectedClass' # selectedClass \/ attendanceDate' # attendanceDate
    /\ selectedClass' # Null

\* the attendance load that ended in the step got no usable data
LoadGotNothing(reply) ==
    \/ reply.kind = "reject"
    \/ ~SuccessOf(reply.response)
    \/ ~Has(reply.response, "data")

\* C15: every step that changes the selected class or the date, with a class
\* selected, issues a load of the roster and a load of the attendance records
\* for the new (class, date) pair; an attendance load that fails or returns no
\* data resets the map to empty, and one that returns records makes the map
\* hold exactly the statuses of those records.
C15_ChangeReloads ==
    [][ /\ PairChanged =>
              /\ StudentsRequest(selectedClass'._id) \in requests' \ requests
              /\ AttendanceRequest(selectedClass'._id, attendanceDate')
                    \in requests' \ requests
              /\ loading'
        /\ finished'.op = "loadExistingAttendance" =>
              /\ finished'.request \in requests \ requests'
              /\ IF LoadGotNothing(finished'.reply)
                 THEN attendance' = EmptyMap
                 ELSE LET records == finished'.reply.response.data IN
                      /\ DOMAIN attendance' =
                            {records[i].student._id : i \in DOMAIN records}
                      /\ \A i \in DOMAIN records :
                            attendance'[records[i].student._id].status = records[i].status
      ]_vars

\* the date was changed with a class selected and both loads are in flight
C15_Witness ==
    /\ selectedClass # Null
    /\ attendanceDate = "d2"
    /\ StudentsRequest(selectedClass._id) \in requests
    /\ AttendanceRequest(selectedClass._id, "d2") \in requests

\* an attendance load was rejected and the map is empty
C15_WitnessReset ==
    /\ finished.op = "loadExistingAttendance"
    /\ finished.reply.kind = "reject"
    /\ finished.request.date = "d2"
    /\ attendance = EmptyMap

----------------------------------------------------------------------------
(* Properties of the map's lifetime *)

\* the load of the attendance records of the pair shown after the step
CurrentLoad == AttendanceRequest(selectedClass'._id, attendanceDate')

\* the reload for the pair shown has settled: none is in flight after the step
ReloadSettled == selectedClass' # Null /\ CurrentLoad \notin requests'

\* C16: every record of the map belongs to the selected (class, date) pair.
\* A load replaces the whole map, so this says: once the load for the pair
\* shown has settled, the records a step puts into the map were loaded for
\* that pair, and a write it merges was issued for that pair.
C16_RecordsOfCurrentPair ==
    [][ ReloadSettled =>
          /\ (finished'.op = "loadExistingAttendance" /\ attendance' # EmptyMap) =>
                finished'.request = CurrentLoad
          /\ \A w \in writes \ writes' :
                WriteSucceeded(w) =>
                    (w.classId = selectedClass'._id /\ w.date = attendanceDate')
      ]_vars

\* the same for writes alone: a write merged after the reload settled was
\* issued for the pair shown
C16_WritesOfCurrentPair ==
    [][ ReloadSettled =>
          \A w \in writes \ writes' :
              WriteSucceeded(w) =>
                  (w.classId = selectedClass'._id /\ w.date = attendanceDate')
      ]_vars

----------------------------------------------------------------------------
(* Properties of the saving flag *)

\* the loads of attendance records in flight: each replaces the map when it settles
AttendanceLoads == {r \in requests : r.kind = "attendance"}

\* while a write or a run is in progress the saving flag is set, and at most
\* one write call is outstanding
WritesSerialized ==
    /\ writes # {} => saving
    /\ run.active => saving
    /\ Cardinality(writes) <= 1
    /\ run.active => \A w \in writes : w.flow = "all"

\* C17 as stated: the map is never accessed by more than one logical flow at
\* a time: the saving flag is set while a write or a run is in progress, at
\* most one write is outstanding, and no other flow that sets the map, a load
\* of the attendance records, is outstanding together with it or with
\* another load.
C17_OneFlowAtATime ==
    /\ WritesSerialized
    /\ Cardinality(writes) + Cardinality(AttendanceLoads) <= 1

\* C17 as amended: the writes to the map are serialized by the saving flag: it
\* is set while a mark write or a markAllPresent run is in progress, so no
\* second write can be started, and at most one write call is outstanding.
C17_WritesSerialized ==
    /\ WritesSerialized
    /\ saving => (writes # {} /\ (run.active \/ \A w \in writes : w.flow = "single"))

\* a write is outstanding, with the flag set, while a load is outstanding too
C17_Witness ==
    /\ saving
    /\ Cardinality(writes) = 1
    /\ AttendanceLoads # {}

----------------------------------------------------------------------------
(* Properties of StatsCards *)

\* the count the data holds for the card at the selected level
RawCount(i) ==
    LET level == parseInt(props.selectedLevel)
        table == IF i = 1 THEN props.currentData.levelProgression
                 ELSE IF i = 2 THEN props.currentData.genderLevelProgression.boys
                 ELSE props.currentData.genderLevelProgression.girls
    IN table.entries[level.num].notProgressed

\* the call a click on the card forwards
ExpectedCall(i) ==
    IF i = 1 THEN [view |-> "total"]
    ELSE IF i = 2 THEN [view |-> "gender", gender |-> "boys"]
    ELSE [view |-> "gender", gender |-> "girls"]

\* C18: the figure of a card is shown only when the selected level is a
\* number above 1 and the count the data holds for that card at that level
\* is positive; at level 1 the non-progression data is all zero and no figure
\* is shown; a click on a card is forwarded to onCardClick, with the card's
\* view and gender, exactly when loading is false.
C18_FigureAndClick ==
    LET level == parseInt(props.selectedLevel)
        shown == cards(props)
    IN /\ \A i \in DOMAIN shown :
             ShowsNonProgressed(props, shown[i]) =>
                 /\ Has(level, "num")
                 /\ level.num > 1
                 /\ shown[i].nonProgressed > 0
                 /\ shown[i].nonProgressed = RawCount(i)
       /\ level = Num(1) =>
             \A i \in DOMAIN shown :
                 shown[i].nonProgressed = 0 /\ ~ShowsNonProgressed(props, shown[i])
       /\ clicked # NoClick =>
             /\ clicked.result.forwarded <=> ~props.loading
             /\ clicked.result.forwarded =>
                   clicked.result.call = ExpectedCall(clicked.card)

\* a card shows its figure and a click on it was forwarded
C18_Witness ==
    /\ clicked # NoClick
    /\ clicked.result.forwarded
    /\ ShowsNonProgressed(props, cards(props)[clicked.card])

\* a click while loading was not forwarded
C18_WitnessLoading ==
    /\ clicked # NoClick
    /\ props.loading
    /\ ~clicked.result.forwarded

\* level 1 is selected and the data holds positive counts for that level
C18_WitnessFirstLevel ==
    /\ parseInt(props.selectedLevel) = Num(1)
    /\ Has(props.currentData, "genderLevelProgression")
    /\ NotProgressedOrZero(At(props.currentData.levelProgression, Num(1))) > 0

----------------------------------------------------------------------------
(* Properties of the session after logout *)

\* C19: once a logout has completed, and until a later login or register
\* succeeds, the session is not authenticated and holds no user, whatever
\* response of the background validation or of a profile update arrives.
C19_LogoutIsFinal ==
    loggedOut => (~state.isAuthenticated /\ state.user = Null)

\* the same for the authentication flag alone
C19_StaysUnauthenticated == loggedOut => ~state.isAuthenticated

----------------------------------------------------------------------------
(* Properties of the session state as a whole *)

\* the role names the predicates are asked about
RoleNames == {"InstituteAdmin", "Teacher", "Student"}

\* C20: in every session state, not authenticated implies no user and no
\* permissions, and authenticated implies a user; hence hasPermission,
\* hasRole and hasAnyRole are false for every argument while the session is
\* not authenticated.
C20_AuthenticatedIffUser ==
    /\ ~state.isAuthenticated =>
          /\ state.user = Null
          /\ state.permissions = <<>>
          /\ \A name \in PermNames : ~hasPermission(name)
          /\ \A role \in RoleNames : ~hasRole(role)
          /\ \A roles \in SUBSET RoleNames : ~hasAnyRole(roles)
    /\ state.isAuthenticated => Truthy(state.user)

\* the second half alone: an authenticated session holds a user
C20_AuthenticatedHasUser == state.isAuthenticated => Truthy(state.user)

----------------------------------------------------------------------------
(* Properties of the loading flag *)

\* no call of login or register is awaiting its collaborator
NoSessionCallPending == inflight["login"] = Idle /\ inflight["register"] = Idle

\* C21: the loading flag always settles.  Once initializeAuth has run to its
\* first await or to its end, on any of its paths, and no login or register
\* call is pending, isLoading is false, in particular while the background
\* validation is in flight and after it settled in any way; and right after
\* any completion of login or register isLoading is false.
C21_LoadingSettles ==
    /\ (pcInit # "start" /\ NoSessionCallPending) => ~state.isLoading
    /\ returned.op \in {"login", "register"} => ~state.isLoading
    /\ (ValidationSettled /\ NoSessionCallPending) => ~state.isLoading

\* the validation is in flight after a register call failed
C21_Witness ==
    /\ pcInit = "validating"
    /\ returned.op = "register"
    /\ ~returned.value.success
    /\ NoSessionCallPending
    /\ ~state.isLoading

\* initialization met an unexpected exception and ended
C21_WitnessException ==
    /\ pcInit = "done"
    /\ initLocals.threw
    /\ ~state.isLoading

----------------------------------------------------------------------------
(* Properties of the map against the roster *)

\* C22: in every state of the attendance view the pending count is not
\* negative and marked does not exceed total: every key of the attendance
\* map is the id of a student of the roster loaded.
C22_MapWithinRoster ==
    /\ getAttendanceStats.unmarked >= 0
    /\ getAttendanceStats.marked <= getAttendanceStats.total
    /\ DOMAIN attendance \subseteq Ids(students)

\* the same once every call of the view has settled
C22_SettledMapWithinRoster ==
    (pcClasses = "done" /\ requests = {} /\ writes = {}) =>
        DOMAIN attendance \subseteq Ids(students)

====
